---- MODULE Spec2Model ----
(***************************************************************************)
(* ParMmg: the two library drivers of libparmmg.c                          *)
(* (PMMG_parmmglib_centralized, PMMG_parmmglib_distributed), the input     *)
(* check and the preprocessing they call, the cleanup macro                *)
(* PMMG_CLEAN_AND_RETURN and the memory-accounting macros of parmmg.h      *)
(* (MEM_CHK_AVAIL, PMMG_DEL_MEM, PMMG_MALLOC, PMMG_CALLOC, PMMG_REALLOC,   *)
(* PMMG_RECALLOC).                                                         *)
(*                                                                         *)
(* Spec     the SPMD run of one driver on NP processes.  MPI_Allreduce is  *)
(*          a blocking collective: a process contributes its value and     *)
(*          leaves once every process of the communicator has contributed  *)
(*          to the collective of the same rank in call order.  The         *)
(*          transport is reliable (spec.md section 1), so the failure      *)
(*          branch of MPI_CHECK is never taken.                            *)
(* SpecFair Spec with weak fairness of every process's steps.              *)
(* SpecMem  one mesh's memory accounting under arbitrary sequences of the  *)
(*          allocation macros on one pointer.                              *)
(* SpecClean  one call of PMMG_CLEAN_AND_RETURN on any list of groups.     *)
(* SpecCheck  one call of PMMG_check_inputData on any list of groups.      *)
(* SpecGlo  one call of PMMG_check_mem_max_and_mem_cur (debug_pmmg.c).     *)
(***************************************************************************)
EXTENDS Integers, Sequences, FiniteSets, TLC

VARIABLES
  mode,    \* which driver the processes run ("centralized" / "distributed"), "mem" under SpecMem
  pc,      \* pc[p]: position of process p in its driver
  loc,     \* loc[p]: the driver's locals that live across steps: ierlib, k
  ret,     \* ret[p]: value returned by the driver, NoRet while running
  grp,     \* grp[p]: parmesh->listgrp (ngrp = Len(grp[p]))
  pm,      \* pm[p]: parmesh->memCur, memMax, the communicators
  sent,    \* sent[p]: the contributions of p to the collectives of parmesh->comm, in call order
  hist,    \* hist[p]: the phases p has executed, with their local outcome
  mem,     \* SpecMem: the mesh whose memCur/memMax are accounted
  buf,     \* SpecMem: the pointer: NULL or a buffer
  last,    \* SpecMem: what the last macro call did
  io       \* SpecClean, SpecCheck, SpecGlo: the argument a function was called on, and its result

vars == <<mode, pc, loc, ret, grp, pm, sent, hist, mem, buf, last, io>>
drvVars == <<mode, pc, loc, ret, grp, pm, sent, hist>>
memVars == <<mem, buf, last>>

(***************************************************************************)
(* Bounds                                                                  *)
(***************************************************************************)
NP == 2            \* number of processes of parmesh->comm
MaxGrp == 2        \* largest ngrp of a process on entry
InitMemMax == 4    \* parmesh->memMax and each mesh's memMax on entry, in doubles
MaxMem == 8        \* SpecMem: memMax of the accounted mesh, in bytes
MaxSize == 2       \* SpecMem: largest element count passed to a macro

Procs == 0 .. NP-1

(***************************************************************************)
(* Outcome codes (libparmmg.h)                                             *)
(***************************************************************************)
PMMG_SUCCESS == 0
PMMG_LOWFAILURE == 1
PMMG_STRONGFAILURE == 2
NoRet == -1

Codes == {PMMG_SUCCESS, PMMG_LOWFAILURE, PMMG_STRONGFAILURE}

SizeofDouble == 8

(***************************************************************************)
(* Groups.  A group holds a mesh (options, entity counters, scaling state, *)
(* memory accounting) and a metric.                                        *)
(*   scal: 0 = physical coordinates, 1 = scaled by _MMG5_scaleMesh;        *)
(*         _MMG5_unscaleMesh takes one level off.                          *)
(*   prep: number of times PMMG_preprocessMesh went through on this mesh.  *)
(***************************************************************************)
GroupOf(kind) ==
  [ mesh  |-> TRUE,
    lag   |-> IF kind = "lag" THEN 0 ELSE -1,
    iso   |-> kind = "iso",
    optimLES |-> FALSE,
    optim |-> kind = "optim",
    hsiz  |-> kind = "hsiz",
    np |-> 2, npi |-> 2, nt |-> 1, nti |-> 1, na |-> 0, nai |-> 0, ne |-> 1, nei |-> 1,
    nsols |-> 1,
    scal  |-> 0,
    prep  |-> 0,
    memCur |-> IF kind \in {"ok", "optim", "hsiz", "lag", "iso"} THEN 0 ELSE SizeofDouble * 3,
    memMax |-> SizeofDouble * InitMemMax,
    met   |-> TRUE,
    metsize |-> IF kind = "badsize" THEN 3 ELSE 1,
    metnp |-> CASE kind = "met" -> 2
                [] kind = "badsize" -> 2
                [] kind = "wrongnp" -> 1
                [] OTHER -> 0,
    metnpi |-> 0,
    metnpmax |-> 2,
    metm  |-> kind \in {"met", "badsize", "wrongnp"},
    sol   |-> << [np |-> 2, npi |-> 2] >> ]

\* the inputs the drivers are run on
InputKinds == {"ok", "lag", "wrongnp"}

(***************************************************************************)
(* PMMG_check_inputData: 1 when every group passes, 0 at the first group   *)
(* that does not.  A metric whose point count differs from the mesh's is   *)
(* dropped (its array freed with _MMG5_DEL_MEM, met->np reset), which is   *)
(* no failure.  hsiz stands for mesh->info.hsiz > 0.                       *)
(***************************************************************************)
CheckGroup(g) ==
  IF g.lag > -1 THEN [r |-> 0, g |-> g]
  ELSE IF g.iso THEN [r |-> 0, g |-> g]
  ELSE IF g.optimLES /\ g.metsize = 6 THEN [r |-> 0, g |-> g]
  ELSE IF g.metnp # 0 /\ g.optim THEN [r |-> 0, g |-> g]
  ELSE IF g.metnp # 0 /\ g.hsiz THEN [r |-> 0, g |-> g]
  ELSE IF g.optim /\ g.hsiz THEN [r |-> 0, g |-> g]
  ELSE IF g.metnp # 0 /\ g.metnp # g.np
    THEN [r |-> 1,
          g |-> [g EXCEPT !.memCur = @ - (g.metsize * (g.metnpmax + 1)) * SizeofDouble,
                          !.metm = FALSE,
                          !.metnp = 0]]
  ELSE IF g.metsize # 1 /\ g.metsize # 6 THEN [r |-> 0, g |-> g]
  ELSE [r |-> 1, g |-> g]

RECURSIVE CheckFrom(_, _)
CheckFrom(gs, k) ==
  IF k > Len(gs) THEN [r |-> 1, gs |-> gs]
  ELSE LET c == CheckGroup(gs[k])
       IN IF c.r = 0 THEN [r |-> 0, gs |-> gs]
          ELSE CheckFrom([gs EXCEPT ![k] = c.g], k + 1)

PMMG_check_inputData(gs) == CheckFrom(gs, 1)

(***************************************************************************)
(* PMMG_preprocessMesh: always works on listgrp[0].  fail names the MMG    *)
(* call that fails in this run ("none": no call fails); a call that is     *)
(* not executed cannot fail.  Returns the code and the groups.             *)
(***************************************************************************)
PMMG_IMPRIM == 1

PreFail == {"none", "scale", "doSol", "constantSize", "tetraQual", "inqua",
            "analys", "unscale"}

PMMG_preprocessMesh(gs, imprim, fail) ==
  LET g == gs[1]
      scaled == [gs EXCEPT ![1].scal = @ + 1]
      absimprim == IF imprim < 0 THEN -imprim ELSE imprim
  IN IF fail = "scale" THEN [ier |-> PMMG_LOWFAILURE, gs |-> gs]
     ELSE IF g.optim /\ g.metnp = 0 /\ fail = "doSol"
       THEN [ier |-> PMMG_STRONGFAILURE, gs |-> scaled]
     ELSE IF g.hsiz /\ fail = "constantSize"
       THEN [ier |-> PMMG_STRONGFAILURE, gs |-> scaled]
     ELSE IF fail = "tetraQual" THEN [ier |-> PMMG_STRONGFAILURE, gs |-> scaled]
     ELSE IF absimprim > 0 /\ fail = "inqua"
       THEN [ier |-> PMMG_STRONGFAILURE, gs |-> scaled]
     ELSE IF fail = "analys" THEN [ier |-> PMMG_STRONGFAILURE, gs |-> scaled]
     ELSE IF fail = "unscale" THEN [ier |-> PMMG_STRONGFAILURE, gs |-> scaled]
     ELSE [ier |-> PMMG_SUCCESS, gs |-> [gs EXCEPT ![1].prep = @ + 1]]

(***************************************************************************)
(* The drivers' recovery after preprocessing: a strong failure becomes a   *)
(* low one when listgrp[k] can be unscaled (unsc: _MMG5_unscaleMesh        *)
(* succeeds).  k is 1-based here.                                          *)
(***************************************************************************)
RecoverUnscale(r, k, unsc) ==
  IF r.ier = PMMG_STRONGFAILURE /\ unsc
    THEN [ier |-> PMMG_LOWFAILURE, gs |-> [r.gs EXCEPT ![k].scal = @ - 1]]
    ELSE r

(***************************************************************************)
(* PMMG_CLEAN_AND_RETURN: the counter reset of every group; the caller     *)
(* then returns val.                                                       *)
(***************************************************************************)
\* mutant: the tests on mesh and met and the bound nsols are missing
CleanGroup_untested(g) ==
  [g EXCEPT !.npi = g.np, !.nti = g.nt, !.nai = g.na, !.nei = g.ne,
            !.metnpi = g.metnp,
            !.sol = [ksol \in 1 .. Len(g.sol) |->
                       [g.sol[ksol] EXCEPT !.npi = g.sol[ksol].np]]]

CleanGroup(g) ==
  LET g1 == IF g.mesh
              THEN [g EXCEPT !.npi = g.np, !.nti = g.nt, !.nai = g.na, !.nei = g.ne]
              ELSE g
      g2 == IF g.met THEN [g1 EXCEPT !.metnpi = g.metnp] ELSE g1
  IN IF g.mesh
       THEN [g2 EXCEPT !.sol = [ksol \in 1 .. Len(g.sol) |->
                                  IF ksol <= g.nsols
                                    THEN [g.sol[ksol] EXCEPT !.npi = g.sol[ksol].np]
                                    ELSE g.sol[ksol]]]
       ELSE g2

\* mutant: the cleanup frees the meshes, as PMMG_RETURN_AND_FREE would
PMMG_CLEAN_AND_RETURN_free(gs) ==
  [kgrp \in 1 .. Len(gs) |-> [CleanGroup(gs[kgrp]) EXCEPT !.mesh = FALSE]]

PMMG_CLEAN_AND_RETURN(gs) == [kgrp \in 1 .. Len(gs) |-> CleanGroup(gs[kgrp])]

(***************************************************************************)
(* Callees of the drivers whose code is outside the files at hand          *)
(* (PMMG_parmmglib1, PMMG_merge_parmesh, PMMG_parmesh_Free_Comm): only     *)
(* their effect on the state the drivers read.                             *)
(***************************************************************************)
\* PMMG_parmmglib1 remeshes every group in place: grow entities are inserted
Remeshed(gs, grow) ==
  [kgrp \in 1 .. Len(gs) |->
     [gs[kgrp] EXCEPT !.np = @ + grow, !.ne = @ + grow, !.nt = @ + grow]]

\* PMMG_merge_parmesh gathers the groups on rank 0; a rank other than 0 may
\* be left with emptied groups (handed), rank 0 keeps listgrp[0]
Merged(gs, myrank, handed) ==
  IF myrank # 0 /\ handed
    THEN [kgrp \in 1 .. Len(gs) |-> [gs[kgrp] EXCEPT !.mesh = FALSE, !.met = FALSE]]
    ELSE gs

\* PMMG_parmesh_Free_Comm releases the communicators and their bytes
PMMG_parmesh_Free_Comm(parmesh) ==
  [parmesh EXCEPT !.memCur = @ - parmesh.commBytes, !.commBytes = 0, !.commFreed = TRUE]

(***************************************************************************)
(* "All the memory is devoted to the mesh": the hand-over of the unused    *)
(* parmesh budget to listgrp[0].mesh.                                      *)
(***************************************************************************)
\* mutant: parmesh->memMax is not lowered
HandOverParmesh_keep(parmesh) == parmesh

HandOverParmesh(parmesh) == [parmesh EXCEPT !.memMax = parmesh.memCur]

HandOverGroups(gs, parmesh) ==
  LET tmpmem == parmesh.memMax - parmesh.memCur
  IN [gs EXCEPT ![1].memMax = @ + tmpmem]

(***************************************************************************)
(* MPI_Allreduce on parmesh->comm.  The n-th collective a process calls is *)
(* matched with the n-th collective of every other process.                *)
(***************************************************************************)
Contribute(p, tag, val) == [sent EXCEPT ![p] = Append(@, [tag |-> tag, val |-> val])]

Arrived(n) == \A q \in Procs : Len(sent[q]) >= n

Vals(n) == {sent[q][n].val : q \in Procs}

\* mutant: the input check reduced with MPI_MAX
MPI_MIN_asMax(S) == CHOOSE x \in S : \A y \in S : y <= x

MPI_MIN(S) == CHOOSE x \in S : \A y \in S : x <= y

MPI_MAX(S) == CHOOSE x \in S : \A y \in S : y <= x

\* the reduction p is blocked in has every contribution
CanLeave(p) == Len(sent[p]) > 0 /\ Arrived(Len(sent[p]))

Phase(p, ph, out) == [hist EXCEPT ![p] = Append(@, [ph |-> ph, out |-> out])]

Return(p, val) ==
  /\ ret' = [ret EXCEPT ![p] = val]
  /\ pc' = [pc EXCEPT ![p] = "done"]

Goto(p, l) ==
  /\ pc' = [pc EXCEPT ![p] = l]
  /\ UNCHANGED ret

(***************************************************************************)
(* The decisions the drivers take on a reduced outcome                     *)
(***************************************************************************)
\* if ( !iresult ) return PMMG_LOWFAILURE;
InputCheckFails(iresult) == iresult = 0

\* if ( iresult!=PMMG_SUCCESS ) return iresult;
PreprocessFails(iresult) == iresult # PMMG_SUCCESS

\* if ( ierlib == PMMG_STRONGFAILURE ) return ierlib;
RemeshAborts(ierlib) == ierlib = PMMG_STRONGFAILURE

\* if ( (!MMG3D_hashTetra( mesh, 0 )) || (-1 == MMG3D_bdryBuild( mesh )) )
BoundaryFails(hash, bdry) == (~hash) \/ bdry = -1

(***************************************************************************)
(* Initial state of a run of one driver                                    *)
(***************************************************************************)
GroupLists ==
  {[kgrp \in 1 .. n |-> IF kgrp = 1 THEN GroupOf(kind) ELSE GroupOf("ok")] :
     n \in 1 .. MaxGrp, kind \in InputKinds}

\* the parmesh of rank p on entry; the bytes in use differ between ranks
ParMeshOf(p) ==
  [ myrank |-> p,
    imprim |-> PMMG_IMPRIM,
    memCur |-> SizeofDouble * (2 + (p % 2)),
    memMax |-> SizeofDouble * InitMemMax,
    commBytes |-> SizeofDouble,
    commFreed |-> FALSE ]

MemIdle ==
  /\ mem = [memCur |-> 0, memMax |-> 0]
  /\ buf = 0
  /\ last = [op |-> "none"]

FnIdle == io = [fn |-> "none"]

Init ==
  /\ mode \in {"centralized", "distributed"}
  /\ pc = [p \in Procs |-> "check"]
  /\ loc = [p \in Procs |-> [ierlib |-> PMMG_SUCCESS, k |-> 0]]
  /\ ret = [p \in Procs |-> NoRet]
  /\ grp \in [Procs -> GroupLists]
  /\ pm = [p \in Procs |-> ParMeshOf(p)]
  /\ sent = [p \in Procs |-> << >>]
  /\ hist = [p \in Procs |-> << >>]
  /\ MemIdle
  /\ FnIdle

(***************************************************************************)
(* PMMG_parmmglib_centralized                                              *)
(***************************************************************************)
\* ier = PMMG_check_inputData( parmesh ); MPI_Allreduce( MPI_MIN )
C_CheckInput(p) ==
  /\ mode = "centralized" /\ pc[p] = "check"
  /\ LET c == PMMG_check_inputData(grp[p])
     IN /\ grp' = [grp EXCEPT ![p] = c.gs]
        /\ sent' = Contribute(p, "check", c.r)
        /\ hist' = Phase(p, "check", c.r)
  /\ Goto(p, "w_check")
  /\ UNCHANGED <<mode, loc, pm, memVars, io>>

C_CheckReduce(p) ==
  /\ mode = "centralized" /\ pc[p] = "w_check" /\ CanLeave(p)
  /\ LET iresult == MPI_MIN(Vals(Len(sent[p])))
     IN IF InputCheckFails(iresult)
          THEN Return(p, PMMG_LOWFAILURE)
          ELSE Goto(p, "bcast")
  /\ UNCHANGED <<mode, loc, grp, pm, sent, hist, memVars, io>>

\* ier = PMMG_bcast_mesh( parmesh ); if ( ier!=1 ) return PMMG_LOWFAILURE;
C_Bcast(p) ==
  /\ mode = "centralized" /\ pc[p] = "bcast"
  /\ \E ier \in {0, 1} :
       /\ hist' = Phase(p, "bcast", ier)
       /\ IF ier # 1 THEN Return(p, PMMG_LOWFAILURE) ELSE Goto(p, "preprocess")
  /\ UNCHANGED <<mode, loc, grp, pm, sent, memVars, io>>

\* ier = PMMG_preprocessMesh( parmesh ); recovery unscale; MPI_Allreduce( MPI_MAX )
C_Preprocess(p) ==
  /\ mode = "centralized" /\ pc[p] = "preprocess"
  /\ \E fail \in PreFail, unsc \in BOOLEAN :
       LET r == RecoverUnscale(PMMG_preprocessMesh(grp[p], pm[p].imprim, fail), 1, unsc)
       IN /\ grp' = [grp EXCEPT ![p] = r.gs]
          /\ sent' = Contribute(p, "preprocess", r.ier)
          /\ hist' = Phase(p, "preprocess", r.ier)
  /\ Goto(p, "w_prep")
  /\ UNCHANGED <<mode, loc, pm, memVars, io>>

C_PrepReduce(p) ==
  /\ mode = "centralized" /\ pc[p] = "w_prep" /\ CanLeave(p)
  /\ LET iresult == MPI_MAX(Vals(Len(sent[p])))
     IN IF PreprocessFails(iresult)
          THEN Return(p, iresult)
          ELSE Goto(p, "distribute")
  /\ UNCHANGED <<mode, loc, grp, pm, sent, hist, memVars, io>>

\* if ( !PMMG_distribute_mesh( parmesh ) ) PMMG_CLEAN_AND_RETURN(parmesh,PMMG_LOWFAILURE);
C_Distribute(p) ==
  /\ mode = "centralized" /\ pc[p] = "distribute"
  /\ \E ok \in BOOLEAN :
       /\ hist' = Phase(p, "distribute", IF ok THEN 1 ELSE 0)
       /\ IF ~ok
            THEN /\ grp' = [grp EXCEPT ![p] = PMMG_CLEAN_AND_RETURN(grp[p])]
                 /\ Return(p, PMMG_LOWFAILURE)
            ELSE /\ Goto(p, "remesh")
                 /\ UNCHANGED grp
  /\ UNCHANGED <<mode, loc, pm, sent, memVars, io>>

\* ier = PMMG_parmmglib1(parmesh); MPI_Allreduce( MPI_MAX )
C_Remesh(p) ==
  /\ mode = "centralized" /\ pc[p] = "remesh"
  /\ \E ier \in Codes, grow \in {0, 1} :
       /\ grp' = [grp EXCEPT ![p] = Remeshed(grp[p], grow)]
       /\ sent' = Contribute(p, "remesh", ier)
       /\ hist' = Phase(p, "remesh", ier)
  /\ Goto(p, "w_remesh")
  /\ UNCHANGED <<mode, loc, pm, memVars, io>>

\* mutant: the local outcome is used where the reduced one is meant
C_RemeshReduce_own(p) ==
  /\ mode = "centralized" /\ pc[p] = "w_remesh" /\ CanLeave(p)
  /\ LET ierlib == sent[p][Len(sent[p])].val
     IN /\ loc' = [loc EXCEPT ![p].ierlib = ierlib]
        /\ IF RemeshAborts(ierlib)
             THEN Return(p, ierlib)
             ELSE Goto(p, "merge")
  /\ UNCHANGED <<mode, grp, pm, sent, hist, memVars, io>>

C_RemeshReduce(p) ==
  /\ mode = "centralized" /\ pc[p] = "w_remesh" /\ CanLeave(p)
  /\ LET ierlib == MPI_MAX(Vals(Len(sent[p])))
     IN /\ loc' = [loc EXCEPT ![p].ierlib = ierlib]
        /\ IF RemeshAborts(ierlib)
             THEN Return(p, ierlib)
             ELSE Goto(p, "merge")
  /\ UNCHANGED <<mode, grp, pm, sent, hist, memVars, io>>

\* mutant: the test if ( !parmesh->myrank ) is missing
C_Merge_allranks(p) ==
  /\ mode = "centralized" /\ pc[p] = "merge"
  /\ \E iresult \in {0, 1}, handed \in BOOLEAN :
       LET gs == Merged(grp[p], pm[p].myrank, handed)
       IN /\ hist' = Phase(p, "merge", iresult)
          /\ IF iresult = 0
               THEN /\ grp' = [grp EXCEPT ![p] = PMMG_CLEAN_AND_RETURN(gs)]
                    /\ Return(p, PMMG_STRONGFAILURE)
               ELSE /\ grp' = [grp EXCEPT ![p] = gs]
                    /\ Goto(p, "boundary")
  /\ UNCHANGED <<mode, loc, pm, sent, memVars, io>>

\* mutant: a failed merge returns the aggregated remeshing outcome
C_Merge_ierlib(p) ==
  /\ mode = "centralized" /\ pc[p] = "merge"
  /\ \E iresult \in {0, 1}, handed \in BOOLEAN :
       LET gs == Merged(grp[p], pm[p].myrank, handed)
       IN /\ hist' = Phase(p, "merge", iresult)
          /\ IF iresult = 0 \/ pm[p].myrank # 0
               THEN /\ grp' = [grp EXCEPT ![p] = PMMG_CLEAN_AND_RETURN(gs)]
                    /\ Return(p, loc[p].ierlib)
               ELSE /\ grp' = [grp EXCEPT ![p] = gs]
                    /\ Goto(p, "boundary")
  /\ UNCHANGED <<mode, loc, pm, sent, memVars, io>>

\* iresult = PMMG_merge_parmesh( parmesh ); a rank other than 0 then goes to
\* the final PMMG_CLEAN_AND_RETURN(parmesh,ierlib)
C_Merge(p) ==
  /\ mode = "centralized" /\ pc[p] = "merge"
  /\ \E iresult \in {0, 1}, handed \in BOOLEAN :
       LET gs == Merged(grp[p], pm[p].myrank, handed)
       IN /\ hist' = Phase(p, "merge", iresult)
          /\ IF iresult = 0
               THEN /\ grp' = [grp EXCEPT ![p] = PMMG_CLEAN_AND_RETURN(gs)]
                    /\ Return(p, PMMG_STRONGFAILURE)
               ELSE IF pm[p].myrank # 0
                 THEN /\ grp' = [grp EXCEPT ![p] = PMMG_CLEAN_AND_RETURN(gs)]
                      /\ Return(p, loc[p].ierlib)
                 ELSE /\ grp' = [grp EXCEPT ![p] = gs]
                      /\ Goto(p, "boundary")
  /\ UNCHANGED <<mode, loc, pm, sent, memVars, io>>

\* rank 0: PMMG_parmesh_Free_Comm, memory hand-over, MMG3D_hashTetra and
\* MMG3D_bdryBuild, then PMMG_CLEAN_AND_RETURN
C_Boundary(p) ==
  /\ mode = "centralized" /\ pc[p] = "boundary"
  /\ \E hash \in BOOLEAN, bdry \in {-1, 1} :
       LET freed == PMMG_parmesh_Free_Comm(pm[p])
           gs == HandOverGroups(grp[p], freed)
       IN /\ pm' = [pm EXCEPT ![p] = HandOverParmesh(freed)]
          /\ grp' = [grp EXCEPT ![p] = PMMG_CLEAN_AND_RETURN(gs)]
          /\ hist' = Phase(p, "boundary", IF BoundaryFails(hash, bdry) THEN 0 ELSE 1)
          /\ IF BoundaryFails(hash, bdry)
               THEN Return(p, PMMG_LOWFAILURE)
               ELSE Return(p, loc[p].ierlib)
  /\ UNCHANGED <<mode, loc, sent, memVars, io>>

(***************************************************************************)
(* PMMG_parmmglib_distributed                                              *)
(***************************************************************************)
D_CheckInput(p) ==
  /\ mode = "distributed" /\ pc[p] = "check"
  /\ LET c == PMMG_check_inputData(grp[p])
     IN /\ grp' = [grp EXCEPT ![p] = c.gs]
        /\ sent' = Contribute(p, "check", c.r)
        /\ hist' = Phase(p, "check", c.r)
  /\ Goto(p, "w_check")
  /\ UNCHANGED <<mode, loc, pm, memVars, io>>

\* after the check the loop for ( k=0; k<parmesh->ngrp; ++k ) is entered
D_CheckReduce(p) ==
  /\ mode = "distributed" /\ pc[p] = "w_check" /\ CanLeave(p)
  /\ LET iresult == MPI_MIN(Vals(Len(sent[p])))
     IN IF InputCheckFails(iresult)
          THEN Return(p, PMMG_LOWFAILURE) /\ UNCHANGED loc
          ELSE /\ loc' = [loc EXCEPT ![p].k = 0]
               /\ Goto(p, IF 0 < Len(grp[p]) THEN "preprocess" ELSE "remesh")
  /\ UNCHANGED <<mode, grp, pm, sent, hist, memVars, io>>

\* loop body: PMMG_preprocessMesh( parmesh ) on listgrp[0], recovery unscale
\* of listgrp[k], MPI_Allreduce( MPI_MAX )
D_Preprocess(p) ==
  /\ mode = "distributed" /\ pc[p] = "preprocess"
  /\ \E fail \in PreFail, unsc \in BOOLEAN :
       LET r == RecoverUnscale(PMMG_preprocessMesh(grp[p], pm[p].imprim, fail),
                               loc[p].k + 1, unsc)
       IN /\ grp' = [grp EXCEPT ![p] = r.gs]
          /\ sent' = Contribute(p, "preprocess", r.ier)
          /\ hist' = Phase(p, "preprocess", r.ier)
  /\ Goto(p, "w_prep")
  /\ UNCHANGED <<mode, loc, pm, memVars, io>>

D_PrepReduce(p) ==
  /\ mode = "distributed" /\ pc[p] = "w_prep" /\ CanLeave(p)
  /\ LET iresult == MPI_MAX(Vals(Len(sent[p])))
     IN IF PreprocessFails(iresult)
          THEN Return(p, iresult) /\ UNCHANGED loc
          ELSE /\ loc' = [loc EXCEPT ![p].k = @ + 1]
               /\ Goto(p, IF loc[p].k + 1 < Len(grp[p]) THEN "preprocess" ELSE "remesh")
  /\ UNCHANGED <<mode, grp, pm, sent, hist, memVars, io>>

D_Remesh(p) ==
  /\ mode = "distributed" /\ pc[p] = "remesh"
  /\ \E ier \in Codes, grow \in {0, 1} :
       /\ grp' = [grp EXCEPT ![p] = Remeshed(grp[p], grow)]
       /\ sent' = Contribute(p, "remesh", ier)
       /\ hist' = Phase(p, "remesh", ier)
  /\ Goto(p, "w_remesh")
  /\ UNCHANGED <<mode, loc, pm, memVars, io>>

D_RemeshReduce(p) ==
  /\ mode = "distributed" /\ pc[p] = "w_remesh" /\ CanLeave(p)
  /\ LET ierlib == MPI_MAX(Vals(Len(sent[p])))
     IN /\ loc' = [loc EXCEPT ![p].ierlib = ierlib]
        /\ IF RemeshAborts(ierlib)
             THEN Return(p, ierlib)
             ELSE Goto(p, "boundary")
  /\ UNCHANGED <<mode, grp, pm, sent, hist, memVars, io>>

\* mutant: PMMG_parmesh_Free_Comm is not called
D_Boundary_nofree(p) ==
  /\ mode = "distributed" /\ pc[p] = "boundary"
  /\ \E hash \in BOOLEAN, bdry \in {-1, 1} :
       /\ pm' = [pm EXCEPT ![p] = HandOverParmesh(pm[p])]
       /\ grp' = [grp EXCEPT ![p] = HandOverGroups(grp[p], pm[p])]
       /\ hist' = Phase(p, "boundary", IF BoundaryFails(hash, bdry) THEN 0 ELSE 1)
       /\ IF BoundaryFails(hash, bdry)
            THEN Return(p, PMMG_LOWFAILURE)
            ELSE Return(p, loc[p].ierlib)
  /\ UNCHANGED <<mode, loc, sent, memVars, io>>

\* every rank: PMMG_parmesh_Free_Comm, memory hand-over, MMG3D_hashTetra and
\* MMG3D_bdryBuild, then a plain return
D_Boundary(p) ==
  /\ mode = "distributed" /\ pc[p] = "boundary"
  /\ \E hash \in BOOLEAN, bdry \in {-1, 1} :
       LET freed == PMMG_parmesh_Free_Comm(pm[p])
       IN /\ pm' = [pm EXCEPT ![p] = HandOverParmesh(freed)]
          /\ grp' = [grp EXCEPT ![p] = HandOverGroups(grp[p], freed)]
          /\ hist' = Phase(p, "boundary", IF BoundaryFails(hash, bdry) THEN 0 ELSE 1)
          /\ IF BoundaryFails(hash, bdry)
               THEN Return(p, PMMG_LOWFAILURE)
               ELSE Return(p, loc[p].ierlib)
  /\ UNCHANGED <<mode, loc, sent, memVars, io>>

\* one step of process p
Step(p) ==
  \/ C_CheckInput(p)
  \/ C_CheckReduce(p)
  \/ C_Bcast(p)
  \/ C_Preprocess(p)
  \/ C_PrepReduce(p)
  \/ C_Distribute(p)
  \/ C_Remesh(p)
  \/ C_RemeshReduce(p)
  \/ C_Merge(p)
  \/ C_Boundary(p)
  \/ D_CheckInput(p)
  \/ D_CheckReduce(p)
  \/ D_Preprocess(p)
  \/ D_PrepReduce(p)
  \/ D_Remesh(p)
  \/ D_RemeshReduce(p)
  \/ D_Boundary(p)

Next == \E p \in Procs : Step(p)

Spec == Init /\ [][Next]_vars

\* every process is a running program: a step it can take is eventually taken
SpecFair == Spec /\ \A p \in Procs : WF_vars(Step(p))

(***************************************************************************)
(* Memory accounting macros of parmmg.h.                                   *)
(*   m: the mesh (memCur, memMax); b: the pointer (null, cap = elements    *)
(*   really allocated, tsize = sizeof(type)); ok: the C library call,      *)
(*   when reached, succeeds.  Each macro yields the new mesh and pointer,  *)
(*   failed = number of executions of on_failure, alloc = a block was      *)
(*   obtained from the C library.                                          *)
(***************************************************************************)
PMMG_FAILURE == 4

TypeSizes == {1, 4}

Sizes == -1 .. MaxSize

\* malloc/calloc/realloc of a byte count: a negative count is a huge size_t
LibcGives(bytes, ok) == ok /\ bytes > 0

\* mutant: the ceiling is not enforced
MEM_CHK_AVAIL_nocap(m, bytes) == PMMG_SUCCESS

MEM_CHK_AVAIL(m, bytes) ==
  IF m.memCur + bytes > m.memMax THEN PMMG_FAILURE
  ELSE IF m.memCur + bytes < 0 THEN PMMG_SUCCESS
  ELSE PMMG_SUCCESS

NullPtr(b) == [b EXCEPT !.null = TRUE, !.cap = 0]

\* mutant: the release is not accounted
PMMG_DEL_MEM_noacct(m, b, size) ==
  [mem |-> m, buf |-> NullPtr(b), failed |-> 0, alloc |-> FALSE]

PMMG_DEL_MEM(m, b, size) ==
  LET size_to_free == (-size) * b.tsize
      acct == size # 0 /\ ~b.null
      stat == IF acct THEN MEM_CHK_AVAIL(m, size_to_free) ELSE PMMG_SUCCESS
  IN [ mem |-> IF acct /\ stat = PMMG_SUCCESS
                 THEN [m EXCEPT !.memCur = @ + size_to_free]
                 ELSE m,
       buf |-> NullPtr(b),
       failed |-> 0,
       alloc |-> FALSE ]

PMMG_MALLOC(m, b, size, ok) ==
  LET size_to_allocate == size * b.tsize
  IN IF size = 0
       THEN [mem |-> m, buf |-> NullPtr(b), failed |-> 0, alloc |-> FALSE]
     ELSE IF MEM_CHK_AVAIL(m, size_to_allocate) = PMMG_SUCCESS
       THEN IF LibcGives(size_to_allocate, ok)
              THEN [ mem |-> [m EXCEPT !.memCur = @ + size_to_allocate],
                     buf |-> [b EXCEPT !.null = FALSE, !.cap = size],
                     failed |-> 0,
                     alloc |-> TRUE ]
              ELSE [mem |-> m, buf |-> NullPtr(b), failed |-> 1, alloc |-> FALSE]
     ELSE [mem |-> m, buf |-> NullPtr(b), failed |-> 1, alloc |-> FALSE]

PMMG_CALLOC(m, b, size, ok) ==
  LET size_to_allocate == size * b.tsize
  IN IF size = 0
       THEN [mem |-> m, buf |-> NullPtr(b), failed |-> 0, alloc |-> FALSE]
     ELSE IF MEM_CHK_AVAIL(m, size_to_allocate) = PMMG_SUCCESS
       THEN IF LibcGives(size_to_allocate, ok)
              THEN [ mem |-> [m EXCEPT !.memCur = @ + size_to_allocate],
                     buf |-> [b EXCEPT !.null = FALSE, !.cap = size],
                     failed |-> 0,
                     alloc |-> TRUE ]
              ELSE [mem |-> m, buf |-> NullPtr(b), failed |-> 1, alloc |-> FALSE]
     ELSE [mem |-> m, buf |-> NullPtr(b), failed |-> 1, alloc |-> FALSE]

\* mutant: the block is released but stays accounted
ReallocFailed_keep(m, b, oldsize) ==
  [mem |-> m, buf |-> NullPtr(b), failed |-> 1, alloc |-> FALSE]

\* after a failed realloc: PMMG_DEL_MEM of the old block, then on_failure
ReallocFailed(m, b, oldsize) ==
  [PMMG_DEL_MEM(m, b, oldsize) EXCEPT !.failed = 1]

\* mutant: a resized block is accounted with its old size
PMMG_REALLOC_nodelta(m, b, newsize, oldsize, ok) ==
  IF b.null THEN PMMG_MALLOC(m, b, newsize, ok)
  ELSE IF newsize = 0 THEN PMMG_DEL_MEM(m, b, oldsize)
  ELSE IF newsize # oldsize /\ LibcGives(newsize * b.tsize, ok)
    THEN [mem |-> m, buf |-> [b EXCEPT !.cap = newsize], failed |-> 0, alloc |-> TRUE]
  ELSE [mem |-> m, buf |-> b, failed |-> 0, alloc |-> FALSE]

PMMG_REALLOC(m, b, newsize, oldsize, ok) ==
  IF b.null THEN PMMG_MALLOC(m, b, newsize, ok)
  ELSE IF newsize = 0 THEN PMMG_DEL_MEM(m, b, oldsize)
  ELSE IF newsize < oldsize
    THEN LET size_to_allocate == newsize * b.tsize
         IN IF ~LibcGives(newsize * b.tsize, ok)
              THEN ReallocFailed(m, b, oldsize)
              ELSE [ mem |-> [m EXCEPT !.memCur = @ - (oldsize * b.tsize - size_to_allocate)],
                     buf |-> [b EXCEPT !.cap = newsize],
                     failed |-> 0,
                     alloc |-> TRUE ]
  ELSE IF newsize > oldsize
    THEN LET size_to_allocate == (newsize - oldsize) * b.tsize
         IN IF MEM_CHK_AVAIL(m, size_to_allocate) = PMMG_SUCCESS
              THEN IF ~LibcGives(newsize * b.tsize, ok)
                     THEN ReallocFailed(m, b, oldsize)
                     ELSE [ mem |-> [m EXCEPT !.memCur = @ + size_to_allocate],
                            buf |-> [b EXCEPT !.cap = newsize],
                            failed |-> 0,
                            alloc |-> TRUE ]
              ELSE [mem |-> m, buf |-> b, failed |-> 0, alloc |-> FALSE]
  ELSE [mem |-> m, buf |-> b, failed |-> 0, alloc |-> FALSE]

\* PMMG_RECALLOC: PMMG_REALLOC, then memset of [oldsize, newsize) unless
\* on_failure ran.  oob: the memset writes outside the block ptr points to.
PMMG_RECALLOC(m, b, newsize, oldsize, ok) ==
  LET r == PMMG_REALLOC(m, b, newsize, oldsize, ok)
      my_stat == IF r.failed > 0 THEN PMMG_FAILURE ELSE PMMG_SUCCESS
      memset == my_stat = PMMG_SUCCESS /\ newsize > oldsize
  IN [ mem |-> r.mem, buf |-> r.buf, failed |-> r.failed, alloc |-> r.alloc,
       memset |-> memset,
       oob |-> memset /\ (r.buf.null \/ oldsize < 0 \/ newsize > r.buf.cap) ]

(***************************************************************************)
(* SpecMem: any sequence of the macros on one mesh and one pointer.  A     *)
(* write outside the block is undefined behaviour: nothing is modelled     *)
(* after it.  memCur is kept above -MaxMem by the guards.                  *)
(***************************************************************************)
DrvParked ==
  /\ pc = [p \in Procs |-> "done"]
  /\ loc = [p \in Procs |-> [ierlib |-> PMMG_SUCCESS, k |-> 0]]
  /\ ret = [p \in Procs |-> NoRet]
  /\ grp = [p \in Procs |-> << >>]
  /\ pm = [p \in Procs |-> ParMeshOf(p)]
  /\ sent = [p \in Procs |-> << >>]
  /\ hist = [p \in Procs |-> << >>]

DrvIdle == mode = "mem" /\ DrvParked

\* what a call did: its arguments (had: the elements the block really had,
\* ok: the answer the C library gives when asked), memCur before, the outcome
Called(op, newsize, oldsize, ok, r, oob) ==
  [ op |-> op, new |-> newsize, old |-> oldsize, ok |-> ok, pre |-> mem.memCur,
    wasnull |-> buf.null, had |-> buf.cap,
    failed |-> r.failed, alloc |-> r.alloc, oob |-> oob ]

InitMem ==
  /\ DrvIdle
  /\ FnIdle
  /\ \E memMax \in {MaxMem - 1, MaxMem}, memCur \in 0 .. MaxMem :
       /\ memCur <= memMax
       /\ mem = [memCur |-> memCur, memMax |-> memMax]
  /\ \E tsize \in TypeSizes : buf = [null |-> TRUE, cap |-> 0, tsize |-> tsize]
  /\ last = [ op |-> "none", new |-> 0, old |-> 0, ok |-> TRUE, pre |-> mem.memCur,
              wasnull |-> TRUE, had |-> 0,
              failed |-> 0, alloc |-> FALSE, oob |-> FALSE ]

Defined == ~last.oob

Apply(op, newsize, oldsize, ok, r, oob) ==
  /\ Defined
  /\ r.mem.memCur >= -MaxMem
  /\ mem' = r.mem
  /\ buf' = r.buf
  /\ last' = Called(op, newsize, oldsize, ok, r, oob)
  /\ UNCHANGED <<drvVars, io>>

MemMalloc ==
  \E size \in Sizes, ok \in BOOLEAN :
    Apply("MALLOC", size, 0, ok, PMMG_MALLOC(mem, buf, size, ok), FALSE)

MemCalloc ==
  \E size \in Sizes, ok \in BOOLEAN :
    Apply("CALLOC", size, 0, ok, PMMG_CALLOC(mem, buf, size, ok), FALSE)

\* assert(((oldsize)==0) && "NULL pointer pointing to non 0 sized memory?")
MemRealloc ==
  \E newsize \in Sizes, oldsize \in Sizes, ok \in BOOLEAN :
    /\ buf.null => oldsize = 0
    /\ Apply("REALLOC", newsize, oldsize, ok, PMMG_REALLOC(mem, buf, newsize, oldsize, ok), FALSE)

MemRecalloc ==
  \E newsize \in Sizes, oldsize \in Sizes, ok \in BOOLEAN :
    /\ buf.null => oldsize = 0
    /\ LET r == PMMG_RECALLOC(mem, buf, newsize, oldsize, ok)
       IN Apply("RECALLOC", newsize, oldsize, ok, r, r.oob)

MemDel ==
  \E size \in Sizes :
    Apply("DEL_MEM", 0, size, TRUE, PMMG_DEL_MEM(mem, buf, size), FALSE)

NextMem == MemMalloc \/ MemCalloc \/ MemRealloc \/ MemRecalloc \/ MemDel

SpecMem == InitMem /\ [][NextMem]_vars

(***************************************************************************)
(* SpecClean: PMMG_CLEAN_AND_RETURN(parmesh,val) called once on a parmesh  *)
(* whose groups are in any state the macro can meet: mesh or met null,     *)
(* counters changed by a remeshing (grow), a metric with or without        *)
(* values, nsols solutions in use out of the allocated ones.               *)
(***************************************************************************)
CleanInput(mesh, met, grow, metnp, nsols) ==
  [GroupOf("ok") EXCEPT
     !.mesh = mesh, !.met = met,
     !.np = @ + grow, !.nt = @ + grow, !.na = @ + grow, !.ne = @ + grow,
     !.metnp = metnp, !.metm = metnp # 0,
     !.nsols = nsols,
     !.sol = << [np |-> 2 + grow, npi |-> 2], [np |-> 3, npi |-> 0] >>]

CleanInputs ==
  {CleanInput(mesh, met, grow, metnp, nsols) :
     mesh \in BOOLEAN, met \in BOOLEAN, grow \in {0, 1}, metnp \in {0, 2},
     nsols \in 0 .. 2}

CleanLists == UNION {[1 .. n -> CleanInputs] : n \in 0 .. MaxGrp}

InitClean ==
  /\ mode = "clean"
  /\ DrvParked
  /\ MemIdle
  /\ \E gs \in CleanLists, val \in Codes : io = [fn |-> "arg", gs |-> gs, val |-> val]

CallClean ==
  /\ io.fn = "arg"
  /\ io' = [fn |-> "PMMG_CLEAN_AND_RETURN", gs |-> io.gs, val |-> io.val,
            out |-> PMMG_CLEAN_AND_RETURN(io.gs), ret |-> io.val]
  /\ UNCHANGED <<drvVars, memVars>>

NextClean == CallClean

SpecClean == InitClean /\ [][NextClean]_vars

(***************************************************************************)
(* SpecCheck: PMMG_check_inputData called once on a parmesh whose groups   *)
(* carry any combination of the options and metric fields it reads.  One   *)
(* group of the list is arbitrary, the others are accepted ones.           *)
(***************************************************************************)
MetSizes == {1, 3, 6}

CheckInput(lag, iso, optimLES, optim, hsiz, metsize, metnp) ==
  LET metbytes == IF metnp # 0
                    THEN (metsize * (GroupOf("ok").metnpmax + 1)) * SizeofDouble
                    ELSE 0
  IN [GroupOf("ok") EXCEPT
        !.lag = lag, !.iso = iso, !.optimLES = optimLES, !.optim = optim, !.hsiz = hsiz,
        !.metsize = metsize, !.metnp = metnp, !.metm = metnp # 0,
        !.memCur = metbytes, !.memMax = @ + metbytes]

CheckInputs ==
  {CheckInput(lag, iso, optimLES, optim, hsiz, metsize, metnp) :
     lag \in {-1, 0}, iso \in BOOLEAN, optimLES \in BOOLEAN, optim \in BOOLEAN,
     hsiz \in BOOLEAN, metsize \in MetSizes, metnp \in 0 .. 2}

PlainInputs ==
  {CheckInput(-1, FALSE, FALSE, FALSE, FALSE, 1, metnp) : metnp \in 0 .. 2}

CheckLists ==
  {gs \in UNION {[1 .. n -> CheckInputs] : n \in 0 .. MaxGrp} :
     \E k \in 0 .. Len(gs) : \A j \in 1 .. Len(gs) : j # k => gs[j] \in PlainInputs}

InitCheck ==
  /\ mode = "check"
  /\ DrvParked
  /\ MemIdle
  /\ \E gs \in CheckLists : io = [fn |-> "arg", gs |-> gs]

CallCheck ==
  /\ io.fn = "arg"
  /\ LET c == PMMG_check_inputData(io.gs)
     IN io' = [fn |-> "PMMG_check_inputData", gs |-> io.gs, out |-> c.gs, ret |-> c.r]
  /\ UNCHANGED <<drvVars, memVars>>

NextCheck == CallCheck

SpecCheck == InitCheck /\ [][NextCheck]_vars

(***************************************************************************)
(* PMMG_check_mem_max_and_mem_cur (debug_pmmg.c): the two sums are         *)
(* accumulated in a size_t, and compared with memGloMax as unsigned        *)
(* values.  The word is scaled down to SizeTMod values; memCur, memMax and *)
(* memGloMax are signed.  Yields the two reports and the parmesh and the   *)
(* groups as the function leaves them.                                     *)
(***************************************************************************)
SizeTMod == 256

ToSizeT(x) == x % SizeTMod

RECURSIVE TotalCur(_, _, _)
TotalCur(gs, i, n_total) ==
  IF i > Len(gs) THEN n_total
  ELSE TotalCur(gs, i + 1, ToSizeT(n_total + gs[i].memCur))

RECURSIVE TotalMax(_, _, _)
TotalMax(gs, i, n_total) ==
  IF i > Len(gs) THEN n_total
  ELSE TotalMax(gs, i + 1, ToSizeT(n_total + gs[i].memMax))

PMMG_check_mem_max_and_mem_cur(parmesh, gs) ==
  [ curErr |-> TotalCur(gs, 1, ToSizeT(parmesh.memCur)) > ToSizeT(parmesh.memGloMax),
    maxErr |-> TotalMax(gs, 1, ToSizeT(parmesh.memMax)) > ToSizeT(parmesh.memGloMax),
    parmesh |-> parmesh,
    gs |-> gs ]

(***************************************************************************)
(* SpecGlo: PMMG_check_mem_max_and_mem_cur called once.  The memCur of a   *)
(* mesh can be negative (a release larger than what was accounted).        *)
(***************************************************************************)
GloParMeshes ==
  {[memCur |-> c * SizeofDouble, memMax |-> m * SizeofDouble, memGloMax |-> g * SizeofDouble] :
     c \in {0, 1}, m \in {1, 2}, g \in {2, 4}}

GloInputs ==
  {[GroupOf("ok") EXCEPT !.memCur = c * SizeofDouble, !.memMax = m * SizeofDouble] :
     c \in {-1, 0, 1}, m \in {1, 2}}

GloLists == UNION {[1 .. n -> GloInputs] : n \in 0 .. MaxGrp}

InitGlo ==
  /\ mode = "glo"
  /\ DrvParked
  /\ MemIdle
  /\ \E parmesh \in GloParMeshes, gs \in GloLists :
       io = [fn |-> "arg", parmesh |-> parmesh, gs |-> gs]

CallCheckMem ==
  /\ io.fn = "arg"
  /\ LET r == PMMG_check_mem_max_and_mem_cur(io.parmesh, io.gs)
     IN io' = [fn |-> "PMMG_check_mem_max_and_mem_cur", parmesh |-> io.parmesh, gs |-> io.gs,
               curErr |-> r.curErr, maxErr |-> r.maxErr,
               outparmesh |-> r.parmesh, out |-> r.gs]
  /\ UNCHANGED <<drvVars, memVars>>

NextGlo == CallCheckMem

SpecGlo == InitGlo /\ [][NextGlo]_vars

(***************************************************************************)
(* Reading the history of a run                                            *)
(***************************************************************************)
Did(p, ph) == \E i \in 1 .. Len(hist[p]) : hist[p][i].ph = ph

Outs(p, ph) == {hist[p][i].out : i \in {j \in 1 .. Len(hist[p]) : hist[p][j].ph = ph}}

Returned(p) == ret[p] # NoRet

PhaseOrder == <<"check", "bcast", "preprocess", "distribute", "remesh", "merge", "boundary">>

PhaseIndex(ph) == CHOOSE i \in 1 .. Len(PhaseOrder) : PhaseOrder[i] = ph

\* the local outcomes that count as a failure of a phase
FailedPhase(q, ph) ==
  CASE ph \in {"check", "distribute", "merge", "boundary"} -> 0 \in Outs(q, ph)
    [] ph = "bcast" -> Outs(q, ph) \ {1} # {}
    [] ph = "preprocess" -> Outs(q, ph) \ {PMMG_SUCCESS} # {}
    [] ph = "remesh" -> PMMG_STRONGFAILURE \in Outs(q, ph)

(***************************************************************************)
(* C1  Fail-together on remeshing (both drivers): when the PMMG_parmmglib1 *)
(* call of some process has returned PMMG_STRONGFAILURE, no process has    *)
(* executed the merge or the boundary reconstruction, and every process    *)
(* that has returned after its remeshing reduction returned                *)
(* PMMG_STRONGFAILURE.                                                     *)
(***************************************************************************)
C1_FailTogether ==
  (\E q \in Procs : PMMG_STRONGFAILURE \in Outs(q, "remesh"))
    => \A p \in Procs :
         /\ ~Did(p, "merge")
         /\ ~Did(p, "boundary")
         /\ (Returned(p) /\ Did(p, "remesh")) => ret[p] = PMMG_STRONGFAILURE

(***************************************************************************)
(* C2  Worst-outcome aggregation at every phase of the centralized driver: *)
(* when the local outcome of a phase is a failure on some process, no      *)
(* process has executed a later phase, and no process that executed the    *)
(* phase has returned PMMG_SUCCESS.                                        *)
(***************************************************************************)
C2_WorstOutcomeEveryPhase ==
  mode = "centralized" =>
    \A q \in Procs : \A i \in 1 .. Len(PhaseOrder) :
      FailedPhase(q, PhaseOrder[i]) =>
        \A p \in Procs :
          /\ \A j \in 1 .. Len(hist[p]) : PhaseIndex(hist[p][j].ph) <= i
          /\ (Returned(p) /\ Did(p, PhaseOrder[i])) => ret[p] # PMMG_SUCCESS

(***************************************************************************)
(* C3  Single final code (both drivers): any two processes that have       *)
(* returned from the same call returned the same code.                     *)
(***************************************************************************)
C3_SingleFinalCode ==
  \A p \in Procs : \A q \in Procs :
    (Returned(p) /\ Returned(q)) => ret[p] = ret[q]

(***************************************************************************)
(* C4  LOW_FAILURE downgrade (centralized): when some PMMG_parmmglib1      *)
(* returned PMMG_LOWFAILURE, none returned PMMG_STRONGFAILURE, the merge   *)
(* succeeded on every process and the boundary reconstruction succeeded,   *)
(* every process has returned PMMG_LOWFAILURE.                             *)
(***************************************************************************)
C4_Pre ==
  /\ mode = "centralized"
  /\ \E q \in Procs : PMMG_LOWFAILURE \in Outs(q, "remesh")
  /\ \A q \in Procs : PMMG_STRONGFAILURE \notin Outs(q, "remesh")
  /\ \A q \in Procs : Outs(q, "merge") = {1}
  /\ Outs(0, "boundary") = {1}

C4_LowFailureDowngrade == C4_Pre => \A p \in Procs : ret[p] = PMMG_LOWFAILURE

C4_Witness ==
  /\ C4_Pre
  /\ \E p \in Procs : Outs(p, "remesh") = {PMMG_SUCCESS} /\ ret[p] = PMMG_LOWFAILURE

(***************************************************************************)
(* C5  Input-validity errors stop the run (both drivers): when             *)
(* PMMG_check_inputData returned 0 on some process, no process is or has   *)
(* been in a phase after the input check, and every process that has       *)
(* returned returned PMMG_LOWFAILURE.                                      *)
(***************************************************************************)
C5_InputErrorsStopRun ==
  (\E q \in Procs : 0 \in Outs(q, "check"))
    => \A p \in Procs :
         /\ pc[p] \in {"check", "w_check", "done"}
         /\ \A i \in 1 .. Len(hist[p]) : hist[p][i].ph = "check"
         /\ Returned(p) => ret[p] = PMMG_LOWFAILURE

C5_Witness ==
  /\ \E q \in Procs : 0 \in Outs(q, "check")
  /\ \E p \in Procs : Outs(p, "check") = {1} /\ ret[p] = PMMG_LOWFAILURE
  /\ \A p \in Procs : Returned(p)

(***************************************************************************)
(* C6  Phase order (centralized): the phases a process has executed are a  *)
(* prefix of check, bcast, preprocess, distribute, remesh, merge,          *)
(* boundary; a process that has started the merge finds every process      *)
(* past its remeshing with its outcome contributed to the reduction; the   *)
(* boundary reconstruction is executed by rank 0 only, after its merge     *)
(* succeeded.                                                              *)
(***************************************************************************)
C6_PhaseOrder ==
  mode = "centralized" =>
    \A p \in Procs :
      /\ Len(hist[p]) <= Len(PhaseOrder)
      /\ \A i \in 1 .. Len(hist[p]) : hist[p][i].ph = PhaseOrder[i]
      /\ Did(p, "merge") =>
           \A q \in Procs :
             /\ Did(q, "remesh")
             /\ \E n \in 1 .. Len(sent[q]) : sent[q][n].tag = "remesh"
      /\ Did(p, "boundary") => (pm[p].myrank = 0 /\ Outs(p, "merge") = {1})

C6_Witness ==
  /\ mode = "centralized"
  /\ Did(0, "boundary")
  /\ \A p \in Procs : Did(p, "merge") /\ Returned(p)

(***************************************************************************)
(* C7  Boundary partial failure (centralized): when the boundary           *)
(* reconstruction failed on rank 0, rank 0 returned PMMG_LOWFAILURE, the   *)
(* mesh of listgrp[0] is still there, and, the merge having succeeded on   *)
(* every process, no process returned PMMG_STRONGFAILURE.                  *)
(***************************************************************************)
C7_BoundaryPartialFailure ==
  (mode = "centralized" /\ 0 \in Outs(0, "boundary"))
    => /\ ret[0] = PMMG_LOWFAILURE
       /\ grp[0][1].mesh
       /\ (\A q \in Procs : 0 \notin Outs(q, "merge"))
            => \A p \in Procs : ret[p] # PMMG_STRONGFAILURE

C7_Witness ==
  /\ mode = "centralized"
  /\ 0 \in Outs(0, "boundary")
  /\ \A p \in Procs : Outs(p, "merge") = {1} /\ Returned(p)

(***************************************************************************)
(* C8  Over-ceiling allocations fail visibly: a call of PMMG_MALLOC,       *)
(* PMMG_CALLOC, PMMG_REALLOC or PMMG_RECALLOC that asks for more elements  *)
(* than the old size (0 for the first two, never negative), and whose      *)
(* additional bytes would make memCur exceed memMax, obtained no block,    *)
(* left memCur unchanged and executed on_failure.                          *)
(***************************************************************************)
OverCeiling ==
  /\ last.op \in {"MALLOC", "CALLOC", "REALLOC", "RECALLOC"}
  /\ last.old >= 0
  /\ last.new > last.old
  /\ last.pre + (last.new - last.old) * buf.tsize > mem.memMax

C8_OverCeilingFailsVisibly ==
  OverCeiling => (~last.alloc /\ mem.memCur = last.pre /\ last.failed >= 1)

(***************************************************************************)
(* C9  Hard cap: memCur <= memMax after any sequence of the macros.        *)
(***************************************************************************)
C9_HardCap == mem.memCur <= mem.memMax

C9_Witness ==
  /\ last.op \in {"REALLOC", "RECALLOC"}
  /\ ~last.wasnull
  /\ last.alloc
  /\ last.pre < mem.memCur
  /\ mem.memCur = mem.memMax

C11_MergeFailureIsStrong ==
  \A p \in Procs :
    (mode = "centralized" /\ 0 \in Outs(p, "merge"))
      => /\ ret[p] = PMMG_STRONGFAILURE
         /\ ~Did(p, "boundary")

C11_Witness ==
  /\ mode = "centralized"
  /\ 0 \in Outs(0, "merge")
  /\ loc[0].ierlib = PMMG_LOWFAILURE
  /\ \E p \in Procs \ {0} : 0 \in Outs(p, "merge") /\ Returned(p)

(***************************************************************************)
(* C12  Meaning of the preprocessing outcome (both drivers): when the last *)
(* thing a process did is the preprocessing of a group (PMMG_preprocessMesh*)
(* and the recovery unscale), an outcome PMMG_LOWFAILURE or PMMG_SUCCESS   *)
(* leaves every mesh of the process unscaled, and an outcome               *)
(* PMMG_STRONGFAILURE leaves the mesh that preprocessing scaled            *)
(* (listgrp[0]) scaled.                                                    *)
(***************************************************************************)
LastOut(p) == hist[p][Len(hist[p])]

C12_PreprocessOutcomeMeaning ==
  \A p \in Procs :
    (Len(hist[p]) > 0 /\ LastOut(p).ph = "preprocess")
      => /\ LastOut(p).out \in {PMMG_SUCCESS, PMMG_LOWFAILURE}
              => \A k \in 1 .. Len(grp[p]) : grp[p][k].scal = 0
         /\ LastOut(p).out = PMMG_STRONGFAILURE => grp[p][1].scal = 1

(***************************************************************************)
(* C13  No process is left waiting (centralized): whatever the local       *)
(* outcomes of the phases, every process eventually returns from           *)
(* PMMG_parmmglib_centralized.                                             *)
(***************************************************************************)
C13_EveryProcessReturns ==
  (mode = "centralized") => <>(\A p \in Procs : Returned(p))

(***************************************************************************)
(* C14  Matching collectives (distributed): whatever the group counts of   *)
(* the processes, the n-th collective reduction of one process is the same *)
(* reduction (input check, preprocessing, remeshing) as the n-th of every  *)
(* other process, and a process that has returned has taken part in every  *)
(* reduction a peer has entered.                                           *)
(***************************************************************************)
C14_MatchingCollectives ==
  mode = "distributed" =>
    \A p \in Procs : \A q \in Procs :
      /\ \A n \in 1 .. Len(sent[p]) :
           n <= Len(sent[q]) => sent[p][n].tag = sent[q][n].tag
      /\ Returned(q) => Len(sent[p]) <= Len(sent[q])

(***************************************************************************)
(* C15  Cleanup on every exit path (centralized): a process that has       *)
(* returned after entering the mesh distribution phase has npi = np,       *)
(* nti = nt, nai = na, nei = ne in every group that has a mesh.            *)
(***************************************************************************)
CountersClean(g) ==
  g.npi = g.np /\ g.nti = g.nt /\ g.nai = g.na /\ g.nei = g.ne

C15_CleanupOnEveryExit ==
  mode = "centralized" =>
    \A p \in Procs :
      (Returned(p) /\ Did(p, "distribute"))
        => \A k \in 1 .. Len(grp[p]) : grp[p][k].mesh => CountersClean(grp[p][k])

(***************************************************************************)
(* C16  Preprocessing failure is aggregated (centralized): when the        *)
(* preprocessing outcome (after the recovery unscale) of some process is   *)
(* PMMG_LOWFAILURE or PMMG_STRONGFAILURE, no process has executed the      *)
(* distribution or a later phase, and every process that has returned      *)
(* returned the maximum of the preprocessing outcomes.                     *)
(***************************************************************************)
PrepOuts == UNION {Outs(q, "preprocess") : q \in Procs}

C16_PreprocessFailureAggregated ==
  (mode = "centralized" /\ PrepOuts \ {PMMG_SUCCESS} # {})
    => \A p \in Procs :
         /\ \A i \in 1 .. Len(hist[p]) :
              PhaseIndex(hist[p][i].ph) <= PhaseIndex("preprocess")
         /\ Returned(p) => ret[p] = MPI_MAX(PrepOuts)

(***************************************************************************)
(* C17  PMMG_CLEAN_AND_RETURN, effect and frame: in every group with a     *)
(* mesh npi, nti, nai, nei become np, nt, na, ne and sol[ksol].npi becomes *)
(* sol[ksol].np for ksol < nsols; met->npi becomes met->np when met is not *)
(* null; val is returned; nothing else changes: the number of groups, np,  *)
(* nt, na, ne, memCur, memMax, the solutions from nsols on, and a group    *)
(* with a null mesh but for its met counter.                               *)
(***************************************************************************)
CleanEffect(g, h) ==
  /\ g.mesh => /\ h.npi = g.np /\ h.nti = g.nt /\ h.nai = g.na /\ h.nei = g.ne
               /\ \A ksol \in 1 .. g.nsols : h.sol[ksol].npi = g.sol[ksol].np
  /\ g.met => h.metnpi = g.metnp

CleanFrame(g, h) ==
  /\ [h EXCEPT !.npi = g.npi, !.nti = g.nti, !.nai = g.nai, !.nei = g.nei,
               !.metnpi = g.metnpi, !.sol = g.sol] = g
  /\ Len(h.sol) = Len(g.sol)
  /\ \A ksol \in 1 .. Len(g.sol) :
       /\ h.sol[ksol].np = g.sol[ksol].np
       /\ ksol > g.nsols => h.sol[ksol] = g.sol[ksol]
  /\ ~g.mesh => [h EXCEPT !.metnpi = g.metnpi] = g
  /\ ~g.met => h.metnpi = g.metnpi

C17_CleanEffectAndFrame ==
  io.fn = "PMMG_CLEAN_AND_RETURN" =>
    /\ io.ret = io.val
    /\ Len(io.out) = Len(io.gs)
    /\ \A kgrp \in 1 .. Len(io.gs) :
         CleanEffect(io.gs[kgrp], io.out[kgrp]) /\ CleanFrame(io.gs[kgrp], io.out[kgrp])

C17_Witness ==
  /\ io.fn = "PMMG_CLEAN_AND_RETURN"
  /\ Len(io.gs) = 2
  /\ io.gs[1].mesh /\ io.gs[1].npi # io.gs[1].np /\ io.gs[1].nsols = 1
  /\ io.out[1].npi = io.gs[1].np /\ io.out[1].sol[2].npi # io.out[1].sol[2].np
  /\ ~io.gs[2].mesh /\ io.gs[2].met /\ io.gs[2].metnp # io.gs[2].metnpi
  /\ io.out[2].metnpi = io.gs[2].metnp /\ io.out[2].npi = io.gs[2].npi

(***************************************************************************)
(* C18  Memory hand-over before the boundary reconstruction (both          *)
(* drivers): the step that executes the boundary phase of process p frees  *)
(* the communicators, leaves parmesh->memMax equal to parmesh->memCur as   *)
(* it is after that release, raises listgrp[0].mesh->memMax by exactly the *)
(* slack old parmesh->memMax - parmesh->memCur, keeps the sum of the two   *)
(* memMax, and keeps memCur <= memMax for the parmesh and for the mesh.    *)
(***************************************************************************)
HandedOver(p) ==
  (pc[p] = "boundary" /\ pc'[p] = "done")
    => /\ pm'[p].commFreed
       /\ pm'[p].memMax = pm'[p].memCur
       /\ grp'[p][1].memMax = grp[p][1].memMax + (pm[p].memMax - pm'[p].memCur)
       /\ pm'[p].memMax + grp'[p][1].memMax = pm[p].memMax + grp[p][1].memMax
       /\ pm'[p].memCur <= pm'[p].memMax
       /\ grp'[p][1].memCur <= grp'[p][1].memMax

C18_MemoryHandOver == [][\A p \in Procs : HandedOver(p)]_vars

C18_Witness ==
  /\ mode = "distributed"
  /\ \A p \in Procs :
       /\ Did(p, "boundary")
       /\ pm[p].commFreed
       /\ pm[p].memCur = ParMeshOf(p).memCur - ParMeshOf(p).commBytes
       /\ pm[p].memMax = pm[p].memCur
       /\ grp[p][1].memMax = GroupOf("ok").memMax + (ParMeshOf(p).memMax - pm[p].memCur)
  /\ pm[0].memCur # pm[1].memCur

(***************************************************************************)
(* C19  PMMG_check_inputData acceptance rule: it returns 1 exactly when no *)
(* group has lag > -1, iso, optimLES with a metric of size 6, an input     *)
(* metric (met->np != 0) with optim or hsiz > 0, optim with hsiz > 0, or a *)
(* metric size other than 1 and 6; otherwise it returns 0.                 *)
(***************************************************************************)
Rejected(g) ==
  \/ g.lag > -1
  \/ g.iso
  \/ g.optimLES /\ g.metsize = 6
  \/ g.metnp # 0 /\ (g.optim \/ g.hsiz)
  \/ g.optim /\ g.hsiz
  \/ g.metsize # 1 /\ g.metsize # 6

C19_AcceptanceRule ==
  io.fn = "PMMG_check_inputData" =>
    /\ io.ret \in {0, 1}
    /\ io.ret = 1 <=> \A k \in 1 .. Len(io.gs) : ~Rejected(io.gs[k])

(***************************************************************************)
(* C20  Malformed metric sizing is an input error (both drivers): the step *)
(* in which a process runs PMMG_check_inputData on groups one of which has *)
(* a metric whose point count is non-zero and differs from the mesh's      *)
(* records the outcome 0 (from which, by C5, the drivers return            *)
(* PMMG_LOWFAILURE without remeshing).                                     *)
(***************************************************************************)
WrongMetricCount(gs) ==
  \E k \in 1 .. Len(gs) : gs[k].metnp # 0 /\ gs[k].metnp # gs[k].np

InputChecked(p) ==
  (pc[p] = "check" /\ pc'[p] = "w_check" /\ WrongMetricCount(grp[p]))
    => hist'[p][Len(hist'[p])] = [ph |-> "check", out |-> 0]

C20_WrongMetricCountRejected == [][\A p \in Procs : InputChecked(p)]_vars

(***************************************************************************)
(* C21  Every owned group is preprocessed (distributed): a process that    *)
(* has left the preprocessing loop and entered the remeshing has had       *)
(* PMMG_preprocessMesh go through exactly once on each of its groups.      *)
(***************************************************************************)
C21_EveryGroupPreprocessed ==
  \A p \in Procs :
    (mode = "distributed" /\ Did(p, "remesh"))
      => \A k \in 1 .. Len(grp[p]) : grp[p][k].prep = 1

(***************************************************************************)
(* C22  PMMG_RECALLOC zero-fills only memory it owns: a call on a pointer  *)
(* that is NULL (oldsize 0) or points to a block of oldsize elements       *)
(* writes no element outside the block the pointer points to after the     *)
(* call, in particular when the growth was refused or realloc failed.      *)
(***************************************************************************)
C22_ZeroFillOwned ==
  (last.op = "RECALLOC" /\ last.old = last.had) => ~last.oob

(***************************************************************************)
(* C23  Accounting never goes negative: a call of PMMG_MALLOC,             *)
(* PMMG_CALLOC, PMMG_REALLOC or PMMG_DEL_MEM with non-negative sizes that  *)
(* starts from memCur >= 0 ends with memCur >= 0, also when the size given *)
(* to PMMG_DEL_MEM is larger than the bytes accounted.                     *)
(***************************************************************************)
C23_NeverNegative ==
  (/\ last.op \in {"MALLOC", "CALLOC", "REALLOC", "DEL_MEM"}
   /\ last.new >= 0 /\ last.old >= 0
   /\ last.pre >= 0)
    => mem.memCur >= 0

(***************************************************************************)
(* C24  PMMG_REALLOC accounts the exact difference: on a non-null buffer   *)
(* of oldsize elements with newsize > 0 a call that obtains the resized    *)
(* block changes memCur by (newsize - oldsize) * sizeof(type), growing or  *)
(* shrinking, and a call with newsize = oldsize changes neither memCur nor *)
(* the pointer; on a NULL pointer it does what PMMG_MALLOC of newsize      *)
(* does, and with newsize = 0 what PMMG_DEL_MEM of oldsize does.           *)
(***************************************************************************)
SameAs(r) == mem' = r.mem /\ buf' = r.buf /\ last'.failed = r.failed

ReallocAccounts ==
  last'.op = "REALLOC"
    => /\ (~buf.null /\ last'.new > 0 /\ last'.old > 0 /\ last'.alloc)
            => mem'.memCur = mem.memCur + (last'.new - last'.old) * buf.tsize
       /\ (~buf.null /\ last'.new > 0 /\ last'.new = last'.old)
            => mem' = mem /\ buf' = buf
       /\ buf.null => SameAs(PMMG_MALLOC(mem, buf, last'.new, last'.ok))
       /\ (~buf.null /\ last'.new = 0) => SameAs(PMMG_DEL_MEM(mem, buf, last'.old))

C24_ReallocExactDifference == [][ReallocAccounts]_vars

C24_Witness ==
  /\ last.op = "REALLOC" /\ ~last.wasnull /\ last.alloc
  /\ last.old = last.had /\ 0 < last.new /\ last.new < last.old
  /\ mem.memCur = last.pre - (last.old - last.new) * buf.tsize
  /\ buf.tsize > 1

(***************************************************************************)
(* C25  PMMG_REALLOC failure path: when realloc is called on a non-null    *)
(* buffer of oldsize >= 0 elements (shrinking, or growing within memMax)   *)
(* and returns NULL, the pointer is NULL afterwards, memCur has gone down  *)
(* by oldsize * sizeof(type), no block was obtained and on_failure was     *)
(* executed exactly once.                                                  *)
(***************************************************************************)
ReallocReturnedNull ==
  /\ last.op \in {"REALLOC", "RECALLOC"}
  /\ ~last.wasnull
  /\ last.old >= 0
  /\ last.new # 0
  /\ \/ last.new < last.old
     \/ /\ last.new > last.old
        /\ last.pre + (last.new - last.old) * buf.tsize <= mem.memMax
  /\ ~LibcGives(last.new * buf.tsize, last.ok)

C25_ReallocFailurePath ==
  ReallocReturnedNull
    => /\ buf.null
       /\ mem.memCur = last.pre - last.old * buf.tsize
       /\ ~last.alloc
       /\ last.failed = 1

C25_Witness ==
  /\ ReallocReturnedNull
  /\ last.op = "REALLOC"
  /\ last.old = last.had /\ last.new > last.old /\ last.old > 0
  /\ buf.null /\ mem.memCur < last.pre

(***************************************************************************)
(* C26  Allocate/free round trip: a PMMG_DEL_MEM of n elements that        *)
(* follows a PMMG_MALLOC or PMMG_CALLOC of n elements that obtained its    *)
(* block brings memCur back to its value before the allocation and leaves  *)
(* the pointer NULL; a PMMG_DEL_MEM on a NULL pointer changes nothing.     *)
(***************************************************************************)
RoundTrip ==
  /\ (/\ last.op \in {"MALLOC", "CALLOC"} /\ last.alloc
      /\ last'.op = "DEL_MEM" /\ last'.old = last.new)
       => mem'.memCur = last.pre /\ buf'.null
  /\ (last'.op = "DEL_MEM" /\ buf.null) => mem' = mem /\ buf' = buf

C26_AllocFreeRoundTrip == [][RoundTrip]_vars

C26_Witness ==
  /\ last.op = "DEL_MEM" /\ ~last.wasnull
  /\ last.old = last.had /\ last.old = MaxSize
  /\ buf.null /\ mem.memCur = last.pre - last.old * buf.tsize
  /\ mem.memCur > 0

(***************************************************************************)
(* C27  PMMG_check_mem_max_and_mem_cur is a pure check: the memCur error   *)
(* is reported exactly when parmesh->memCur plus the memCur of the group   *)
(* meshes exceeds memGloMax, the memMax error exactly when parmesh->memMax *)
(* plus the memMax of the group meshes exceeds memGloMax, and neither the  *)
(* parmesh nor a group is modified.                                        *)
(***************************************************************************)
RECURSIVE SumCur(_)
SumCur(gs) == IF gs = << >> THEN 0 ELSE Head(gs).memCur + SumCur(Tail(gs))

RECURSIVE SumMax(_)
SumMax(gs) == IF gs = << >> THEN 0 ELSE Head(gs).memMax + SumMax(Tail(gs))

C27_PureCheck ==
  io.fn = "PMMG_check_mem_max_and_mem_cur" =>
    /\ io.curErr <=> io.parmesh.memCur + SumCur(io.gs) > io.parmesh.memGloMax
    /\ io.maxErr <=> io.parmesh.memMax + SumMax(io.gs) > io.parmesh.memGloMax
    /\ io.outparmesh = io.parmesh
    /\ io.out = io.gs

====
